---- MODULE Spec2Model ----
\* aml_pred_assim: the predecessor/neighbourhood index builder (Predecessor.py)
\* and the sparse precision-matrix estimator (PrecisionMatrix.py, core.py).
EXTENDS Integers, Sequences, FiniteSets, TLC

\* ------------------------------------------------------------------ bounds
\* Largest layer / variable / latitude / longitude dimension of a field whose
\* points are queried one at a time (SpecPoint).
MaxL == 2
MaxV == 2
MaxK == 5
MaxM == 5
\* Largest valid radius passed to a call.
MaxRadius == 2
\* Largest number of grid cells L*V*K*M of a field held by a Predecessor object
\* whose whole life is followed (Spec).
MaxCells == 2
\* Largest number of features n of an estimator built from free predecessor lists.
MaxN == 2
\* Number of ensemble members (rows of Xb).
Samples == 2
\* Number of threads that call get_all_predecessors on one object.
NumCallers == 2

\* The default regularisation strength alpha of the estimator.
DefaultAlpha == 1
\* Largest number of grid cells of a field whose get_all_predecessors result is
\* handed to the estimator.
MaxGrid == 6

\* ------------------------------------------------------- python values
\* A Python argument with its run-time type; val is the integer it carries
\* (True = 1, False = 0, a string carries nothing).
PyInt(v) == [type |-> "int", val |-> v]

PyBool(b) == [type |-> "bool", val |-> IF b THEN 1 ELSE 0]

PyStr == [type |-> "str", val |-> 0]

\* isinstance(x, int): bool is a subclass of int.
isinstance_int(x) == x.type \in {"int", "bool"}

isinstance_bool(x) == x.type = "bool"

\* A point argument: its container type, whether all its items are ints, and
\* the items.
PyPoint(type, ints, val) == [type |-> type, ints |-> ints, val |-> val]

\* What a call produced.
Return(v) == [kind |-> "return", exc |-> "", val |-> v]

Raise(e) == [kind |-> "raise", exc |-> e, val |-> <<>>]

\* self.all_predecessors: None, or the cached list.
None == [set |-> FALSE, val |-> <<>>]

Some(v) == [set |-> TRUE, val |-> v]

\* ------------------------------------------------------- numpy helpers
\* A sequence given element by element, evaluated once into a tuple.
tuple(s) == s \o <<>>

\* np.arange(a, b)
arange(a, b) == [t \in 1..(IF b > a THEN b - a ELSE 0) |-> a + t - 1]

\* s % d, element-wise, with Python's sign convention (result in 0..d-1).
mod_seq(s, d) == [t \in DOMAIN s |-> s[t] % d]

Range(s) == {s[t] : t \in DOMAIN s}

Min(S) == CHOOSE x \in S : \A y \in S : x <= y

RECURSIVE SortedSeq(_)
SortedSeq(S) == IF S = {} THEN <<>> ELSE <<Min(S)>> \o SortedSeq(S \ {Min(S)})

\* np.unique(s): the sorted distinct items.
unique(s) == SortedSeq(Range(s))

\* np.array(np.meshgrid(a, b, c, d)).T.reshape(-1, 4): the rows (a', b', c', d')
\* of the Cartesian product, d slowest, then c, then a, b fastest.
meshgrid_rows(a, b, c, d) ==
  LET na == Len(a)
      nb == Len(b)
      nc == Len(c)
      nd == Len(d)
  IN [t \in 1..(na * nb * nc * nd) |->
        << a[(((t - 1) \div nb) % na) + 1],
           b[((t - 1) % nb) + 1],
           c[(((t - 1) \div (nb * na)) % nc) + 1],
           d[((t - 1) \div (nb * na * nc)) + 1] >>]

\* ------------------------------------------------------- Predecessor
validate_point(shape, point) ==
  \A a \in 1..4 : 0 <= point[a] /\ point[a] < shape[a]

\* The bounds with the upper clamp one short.
calculate_bounds_short(shape, point, r, x_bound, y_bound) ==
  LET k == point[3]
      l == point[4]
      max(a, b) == IF a >= b THEN a ELSE b
      min(a, b) == IF a <= b THEN a ELSE b
  IN << IF y_bound THEN max(k - r, 0) ELSE k - r,
        IF y_bound THEN min(shape[3] - 1, k + r + 1) ELSE k + r + 1,
        IF x_bound THEN max(l - r, 0) ELSE l - r,
        IF x_bound THEN min(shape[4] - 1, l + r + 1) ELSE l + r + 1 >>

\* The bounds with the lower clamp forgotten.
calculate_bounds_nofloor(shape, point, r, x_bound, y_bound) ==
  LET k == point[3]
      l == point[4]
      min(a, b) == IF a <= b THEN a ELSE b
  IN << k - r,
        IF y_bound THEN min(shape[3], k + r + 1) ELSE k + r + 1,
        l - r,
        IF x_bound THEN min(shape[4], l + r + 1) ELSE l + r + 1 >>

calculate_bounds(shape, point, r, x_bound, y_bound) ==
  LET k == point[3]
      l == point[4]
      max(a, b) == IF a >= b THEN a ELSE b
      min(a, b) == IF a <= b THEN a ELSE b
      k_min == IF y_bound THEN max(k - r, 0) ELSE k - r
      k_max == IF y_bound THEN min(shape[3], k + r + 1) ELSE k + r + 1
      l_min == IF x_bound THEN max(l - r, 0) ELSE l - r
      l_max == IF x_bound THEN min(shape[4], l + r + 1) ELSE l + r + 1
  IN <<k_min, k_max, l_min, l_max>>

\* utils._calculate_bounds
utils_calculate_bounds(shape, point, r, x_bound, y_bound) ==
  LET k == point[3]
      l == point[4]
      max(a, b) == IF a >= b THEN a ELSE b
      min(a, b) == IF a <= b THEN a ELSE b
      k_min == IF y_bound THEN max(k - r, 0) ELSE k - r
      k_max == IF y_bound THEN min(shape[3] - 1, k + r + 1) ELSE k + r + 1
      l_min == IF x_bound THEN max(l - r, 0) ELSE l - r
      l_max == IF x_bound THEN min(shape[4] - 1, l + r + 1) ELSE l + r + 1
  IN <<k_min, k_max, l_min, l_max>>

\* The indices without the wrap of the ranges into the axes.
get_indices_unwrapped(shape, k_min, k_max, l_min, l_max, k) ==
  LET k_ind == unique(arange(k_min, k_max))
      l_ind == unique(arange(l_min, l_max))
  IN << IF Len(k_ind) = 0 THEN <<k>> ELSE k_ind, l_ind >>

\* The test k_ind.size == 0 of __get_indices: whether the fallback to the
\* point's own latitude is taken.
fallback_taken(shape, k_min, k_max) ==
  Len(unique(mod_seq(arange(k_min, k_max), shape[3]))) = 0

get_indices(shape, k_min, k_max, l_min, l_max, k) ==
  LET k_ind == unique(mod_seq(arange(k_min, k_max), shape[3]))
      l_ind == unique(mod_seq(arange(l_min, l_max), shape[4]))
  IN << IF Len(k_ind) = 0 THEN <<k>> ELSE k_ind, l_ind >>

\* The positions with the fourth group running up to the point's own latitude.
calculate_positions_inclusive(i, j, shape, k_ind, l_ind, k_min, k, l_min, l) ==
  meshgrid_rows(arange(0, i), arange(0, shape[2]), k_ind, l_ind)
    \o meshgrid_rows(<<i>>, arange(0, j), k_ind, l_ind)
    \o meshgrid_rows(<<i>>, <<j>>, k_ind, arange(l_min, l))
    \o meshgrid_rows(<<i>>, <<j>>, arange(k_min, k + 1), <<l>>)

calculate_positions(i, j, shape, k_ind, l_ind, k_min, k, l_min, l) ==
  meshgrid_rows(arange(0, i), arange(0, shape[2]), k_ind, l_ind)
    \o meshgrid_rows(<<i>>, arange(0, j), k_ind, l_ind)
    \o meshgrid_rows(<<i>>, <<j>>, k_ind, arange(l_min, l))
    \o meshgrid_rows(<<i>>, <<j>>, arange(k_min, k), <<l>>)

\* The flattening in numpy's default (row-major) order of the four axes.
flat_index_row_major(p, shape) ==
  p[1] * shape[2] * shape[3] * shape[4] + p[2] * shape[3] * shape[4]
    + p[3] * shape[4] + p[4]

\* The flattening of one position (i, j, k, l).
flat_index(p, shape) ==
  p[4] * shape[2] * shape[3] * shape[1] + p[3] * shape[2] * shape[1]
    + p[2] * shape[1] + p[1]

flat_indices(positions, shape) ==
  [t \in DOMAIN positions |-> flat_index(positions[t], shape)]

\* utils._flat_indices
utils_flat_indices(positions, shape) ==
  [t \in DOMAIN positions |->
     positions[t][4] * shape[2] * shape[3] * shape[1]
       + positions[t][3] * shape[2] * shape[1]
       + positions[t][2] * shape[1] + positions[t][1]]

\* The computation of get_point_predecessors once its arguments passed the
\* checks: r an integer, the flags booleans.
point_predecessors(shape, point, r, x_bound, y_bound) ==
  LET b == calculate_bounds(shape, point, r, x_bound, y_bound)
      ind == get_indices(shape, b[1], b[2], b[3], b[4], point[3])
  IN flat_indices(
       calculate_positions(point[1], point[2], shape, ind[1], ind[2],
                           b[1], point[3], b[3], point[4]),
       shape)

\* A get_point_predecessors that rejects a point outside the field.
get_point_predecessors_strict(shape, point, radius, x_bound, y_bound) ==
  IF point.type # "tuple" \/ Len(point.val) # 4 \/ ~point.ints
    THEN Raise("ValueError")
  ELSE IF ~isinstance_int(radius) \/ radius.val <= 0
    THEN Raise("ValueError")
  ELSE IF ~isinstance_bool(x_bound) \/ ~isinstance_bool(y_bound)
    THEN Raise("TypeError")
  ELSE IF ~validate_point(shape, point.val)
    THEN Raise("ValueError")
  ELSE Return(point_predecessors(shape, point.val, radius.val,
                                 x_bound.val = 1, y_bound.val = 1))

get_point_predecessors(shape, point, radius, x_bound, y_bound) ==
  IF point.type # "tuple" \/ Len(point.val) # 4 \/ ~point.ints
    THEN Raise("ValueError")
  ELSE IF ~isinstance_int(radius) \/ radius.val <= 0
    THEN Raise("ValueError")
  ELSE IF ~isinstance_bool(x_bound) \/ ~isinstance_bool(y_bound)
    THEN Raise("TypeError")
  ELSE IF ~validate_point(shape, point.val)
    THEN Return(<<>>)
  ELSE Return(point_predecessors(shape, point.val, radius.val,
                                 x_bound.val = 1, y_bound.val = 1))

\* A matrix argument: its run-time type, len(matrix.shape) and matrix.shape.
PyMatrix(type, ndim, shp) == [type |-> type, ndim |-> ndim, shape |-> shp]

\* Predecessor.__init__: the error raised, or the shape of self.matrix.
predecessor_init(matrix) ==
  IF matrix.type # "ndarray" THEN Raise("TypeError")
  ELSE IF matrix.ndim # 4 THEN Raise("ValueError")
  ELSE Return(matrix.shape)

\* The computation of core.predecessors once its arguments passed the checks,
\* with the functions of utils.
core_point_predecessors(shape, point, r, x_bound, y_bound) ==
  LET b == utils_calculate_bounds(shape, point, r, x_bound, y_bound)
      ind == get_indices(shape, b[1], b[2], b[3], b[4], point[3])
  IN flat_indices(
       calculate_positions(point[1], point[2], shape, ind[1], ind[2],
                           b[1], point[3], b[3], point[4]),
       shape)

\* core.predecessors with the check of the flags before the check of the radius.
core_predecessors_flags_first(matrix, point, radius, x_bound, y_bound) ==
  IF matrix.type # "ndarray" THEN Raise("TypeError")
  ELSE IF matrix.ndim # 4 THEN Raise("ValueError")
  ELSE IF point.type # "tuple" \/ Len(point.val) # 4 \/ ~point.ints
    THEN Raise("ValueError")
  ELSE IF ~isinstance_bool(x_bound) \/ ~isinstance_bool(y_bound)
    THEN Raise("TypeError")
  ELSE IF ~isinstance_int(radius) \/ radius.val <= 0
    THEN Raise("ValueError")
  ELSE IF ~validate_point(matrix.shape, point.val)
    THEN Return(<<>>)
  ELSE Return(core_point_predecessors(matrix.shape, point.val, radius.val,
                                      x_bound.val = 1, y_bound.val = 1))

\* core.predecessors
core_predecessors(matrix, point, radius, x_bound, y_bound) ==
  IF matrix.type # "ndarray" THEN Raise("TypeError")
  ELSE IF matrix.ndim # 4 THEN Raise("ValueError")
  ELSE IF point.type # "tuple" \/ Len(point.val) # 4 \/ ~point.ints
    THEN Raise("ValueError")
  ELSE IF ~isinstance_int(radius) \/ radius.val <= 0
    THEN Raise("ValueError")
  ELSE IF ~isinstance_bool(x_bound) \/ ~isinstance_bool(y_bound)
    THEN Raise("TypeError")
  ELSE IF ~validate_point(matrix.shape, point.val)
    THEN Return(<<>>)
  ELSE Return(core_point_predecessors(matrix.shape, point.val, radius.val,
                                      x_bound.val = 1, y_bound.val = 1))

\* The points with the two inner loops exchanged: latitude outside longitude.
loop_points_latitude_outer(shape) ==
  [t \in 1..(shape[1] * shape[2] * shape[3] * shape[4]) |->
     << (t - 1) \div (shape[2] * shape[4] * shape[3]),
        ((t - 1) \div (shape[4] * shape[3])) % shape[2],
        ((t - 1) \div shape[4]) % shape[3],
        (t - 1) % shape[4] >>]

\* The points in the order of the nested loops of get_all_predecessors:
\* layer, variable, longitude, latitude (latitude innermost).
loop_points(shape) ==
  [t \in 1..(shape[1] * shape[2] * shape[3] * shape[4]) |->
     << (t - 1) \div (shape[2] * shape[4] * shape[3]),
        ((t - 1) \div (shape[4] * shape[3])) % shape[2],
        (t - 1) % shape[3],
        ((t - 1) \div shape[3]) % shape[4] >>]

\* The loop of get_all_predecessors on an empty cache: the first call that
\* raises ends it, otherwise the list of all results.
all_results(shape, radius, x_bound, y_bound) ==
  LET pts == loop_points(shape)
      res == [t \in DOMAIN pts |->
                get_point_predecessors(shape, PyPoint("tuple", TRUE, pts[t]),
                                       radius, x_bound, y_bound)]
      bad == {t \in DOMAIN res : res[t].kind = "raise"}
  IN IF bad # {} THEN res[Min(bad)]
     ELSE Return([t \in DOMAIN res |-> res[t].val])

\* ------------------------------------------------------- exact numbers
\* The estimator's floating-point values are modelled as exact fractions
\* num/den with den >= 0 in lowest terms; 1/0 is inf, -1/0 is -inf, 0/0 is nan.
Abs(a) == IF a < 0 THEN -a ELSE a

RECURSIVE GCD(_, _)
GCD(a, b) == IF b = 0 THEN a ELSE GCD(b, a % b)

Sign(a) == IF a > 0 THEN 1 ELSE IF a < 0 THEN -1 ELSE 0

Q(n, d) ==
  IF d = 0 THEN [num |-> Sign(n), den |-> 0]
  ELSE LET g == GCD(Abs(n), Abs(d))
       IN [num |-> Sign(d) * Sign(n) * (Abs(n) \div g), den |-> Abs(d) \div g]

QInt(a) == [num |-> a, den |-> 1]

QAdd(a, b) ==
  IF a.den = 0 /\ b.den = 0 /\ a.num = b.num THEN a
  ELSE Q(a.num * b.den + b.num * a.den, a.den * b.den)

QMul(a, b) == Q(a.num * b.num, a.den * b.den)

QNeg(a) == [num |-> -a.num, den |-> a.den]

\* 1 / a; 1 / 0.0 is inf for a numpy float.
QInv(a) == Q(a.den, a.num)

RECURSIVE SumInt(_)
SumInt(s) == IF s = <<>> THEN 0 ELSE Head(s) + SumInt(Tail(s))

RECURSIVE QSum(_)
QSum(s) == IF s = <<>> THEN QInt(0) ELSE QAdd(Head(s), QSum(Tail(s)))

\* np.var of the values nums[s] / den: the mean of the squared deviations
\* from the mean (ddof = 0).
np_var(nums, den) ==
  LET m == Len(nums)
      sq == [t \in DOMAIN nums |-> nums[t] * nums[t]]
  IN Q(m * SumInt(sq) - SumInt(nums) * SumInt(nums), m * m * den * den)

\* The determinant of a square integer matrix (a sequence of rows), by
\* expansion along the first row.
RECURSIVE Det(_)
Det(A) ==
  IF Len(A) = 0 THEN 1
  ELSE LET k == Len(A)
           minor(c) == tuple([r \in 1..(k - 1) |->
                          tuple([d \in 1..(k - 1) |-> A[r + 1][IF d < c THEN d ELSE d + 1]])])
           term(c) == (IF c % 2 = 1 THEN 1 ELSE -1) * A[1][c] * Det(minor(c))
       IN SumInt([c \in 1..k |-> term(c)])

\* The solution w of A w = rhs by Cramer's rule, as the numerators N of
\* w[j] = N[j] / det and the common denominator det.
solve(A, rhs) ==
  LET k == Len(rhs)
      replaced(j) == tuple([a \in 1..k |-> tuple([b \in 1..k |->
                        IF b = j THEN rhs[a] ELSE A[a][b]])])
  IN [coef |-> tuple([j \in 1..k |-> Det(replaced(j))]), det |-> Det(A)]

dot(u, v) == SumInt([t \in DOMAIN u |-> u[t] * v[t]])

\* Ridge(fit_intercept=False, alpha).fit(X, y): the solution w of
\* (X^t X + alpha I) w = X^t y. X is a sequence of columns, y a column.
ridge_fit(X, y, alpha) ==
  solve(tuple([a \in DOMAIN X |-> tuple([b \in DOMAIN X |->
                 dot(X[a], X[b]) + (IF a = b THEN alpha ELSE 0)])]),
        tuple([a \in DOMAIN X |-> dot(X[a], y)]))

\* ------------------------------------------------------- PrecisionMatrix
\* Xb_[:, f] of an ensemble given as a sequence of sample rows; a negative f
\* counts from the last column.
column(Xb, f) ==
  LET n == Len(Xb[1])
      c == IF f < 0 THEN f + n ELSE f
  IN tuple([t \in DOMAIN Xb |-> Xb[t][c + 1]])

\* The else branch of the loop body, after lr.fit(X, y): the entries
\* appended to (I, J, T) and the value appended to D.
regression_step(i, p, X, y, fit) ==
  LET residuals == tuple([t \in DOMAIN y |->
         fit.det * y[t] - SumInt([a \in DOMAIN p |-> X[a][t] * fit.coef[a]])])
  IN [T |-> <<[i |-> i, j |-> i, v |-> QInt(1)]>>
              \o [a \in DOMAIN p |->
                    [i |-> i, j |-> p[a], v |-> Q(-fit.coef[a], fit.det)]],
      D |-> QInv(np_var(residuals, fit.det))]

regression(i, p, X, y, alpha) == regression_step(i, p, X, y, ridge_fit(X, y, alpha))

\* A loop body that first removes the previous feature's column from y.
feature_step_chained(Xb_, i, p, alpha) ==
  IF i = 0
    THEN [T |-> <<[i |-> i, j |-> i, v |-> QInt(1)]>>,
          D |-> QInv(np_var(column(Xb_, i), 1))]
  ELSE regression(i, p, tuple([a \in DOMAIN p |-> column(Xb_, p[a])]),
                  tuple([t \in DOMAIN Xb_ |-> Xb_[t][i + 1] - Xb_[t][i]]), alpha)

\* One pass of the loop body for feature i with predecessor array p.
feature_step(Xb_, i, p, alpha) ==
  IF i = 0
    THEN [T |-> <<[i |-> i, j |-> i, v |-> QInt(1)]>>,
          D |-> QInv(np_var(column(Xb_, i), 1))]
  ELSE regression(i, p, tuple([a \in DOMAIN p |-> column(Xb_, p[a])]),
                  column(Xb_, i), alpha)

\* Whether the loop body raises for feature i: indexing the ensemble with a
\* column that does not exist or with an empty (float) array.
feature_raises(Xb_, i, p) ==
  LET n == Len(Xb_[1])
  IN i # 0 /\ (i >= n \/ Len(p) = 0 \/ \E a \in DOMAIN p : p[a] < -n \/ p[a] >= n)

RECURSIVE Concat(_)
Concat(ss) == IF ss = <<>> THEN <<>> ELSE Head(ss) \o Concat(Tail(ss))

\* The COO matrices built after the loop from the lists (I, J, T) and D.
assemble(steps) ==
  [T |-> Concat([t \in DOMAIN steps |-> steps[t].T]),
   D |-> tuple([t \in DOMAIN steps |-> steps[t].D])]

\* PrecisionMatrix.__calculate_precision_matrix: (T, D) in COO form, T as the
\* list of its (i, j, v) entries and D as its diagonal, or the error raised:
\* by the loop, or by coo_matrix for a negative column index in J.
calculate_precision_matrix(Xb, pred, n, alpha) ==
  IF \E t \in DOMAIN pred : feature_raises(Xb, t - 1, pred[t])
    THEN Raise("IndexError")
  ELSE IF \E t \in DOMAIN pred : t > 1 /\ \E a \in DOMAIN pred[t] : pred[t][a] < 0
    THEN Raise("ValueError")
  ELSE Return(assemble(tuple([t \in DOMAIN pred |->
                                feature_step(Xb, t - 1, pred[t], alpha)])))

\* A constructor without the check of alpha.
precision_matrix_init_any_alpha(Xb, pred, n, alpha) ==
  IF Xb.type # "ndarray" \/ Xb.ndim # 2 THEN Raise("ValueError")
  ELSE IF pred.type # "list" THEN Raise("TypeError")
  ELSE IF ~isinstance_int(n) \/ n.val <= 0 THEN Raise("ValueError")
  ELSE IF Len(pred.val) # n.val THEN Raise("ValueError")
  ELSE calculate_precision_matrix(Xb.val, pred.val, n.val, alpha.val)

\* PrecisionMatrix.__init__: the checks, then the factorisation kept in
\* self.value. Returns the value, or the error raised.
precision_matrix_init(Xb, pred, n, alpha) ==
  IF Xb.type # "ndarray" \/ Xb.ndim # 2 THEN Raise("ValueError")
  ELSE IF pred.type # "list" THEN Raise("TypeError")
  ELSE IF ~isinstance_int(n) \/ n.val <= 0 THEN Raise("ValueError")
  ELSE IF ~isinstance_int(alpha) \/ alpha.val <= 0 THEN Raise("ValueError")
  ELSE IF Len(pred.val) # n.val THEN Raise("ValueError")
  ELSE calculate_precision_matrix(Xb.val, pred.val, n.val, alpha.val)

\* The matrix a COO entry list stands for (what the product converts it to):
\* entries at the same position add up; a position without entry is an
\* implicit zero, which a sparse product skips. Rows and columns 1..n stand
\* for features 0..n-1.
coo_to_matrix(T, n) ==
  tuple([r \in 1..n |-> tuple([c \in 1..n |->
    [stored |-> \E t \in DOMAIN T : T[t].i = r - 1 /\ T[t].j = c - 1,
     v |-> QSum([t \in DOMAIN T |->
                   IF T[t].i = r - 1 /\ T[t].j = c - 1 THEN T[t].v ELSE QInt(0)])]])])

\* (M.T @ M)[r, c] over the stored entries.
TtT(M, n, r, c) ==
  QSum([t \in 1..n |->
          IF M[t][r].stored /\ M[t][c].stored
            THEN QMul(M[t][r].v, M[t][c].v) ELSE QInt(0)])

\* (M.T @ D @ M)[r, c] over the stored entries, D a stored diagonal.
TtDT(M, D, n, r, c) ==
  QSum([t \in 1..n |->
          IF M[t][r].stored /\ M[t][c].stored
            THEN QMul(QMul(M[t][r].v, D[t]), M[t][c].v) ELSE QInt(0)])

\* M.T @ M + D for the matrix M of T, as an n x n matrix.
TtT_plus_D(M, D, n) ==
  tuple([r \in 1..n |-> tuple([c \in 1..n |->
     IF r = c THEN QAdd(TtT(M, n, r, c), D[r]) ELSE TtT(M, n, r, c)])])

\* PrecisionMatrix.get_matrix: T.T @ T + D.
get_matrix(value) ==
  TtT_plus_D(coo_to_matrix(value.T, Len(value.D)), value.D, Len(value.D))

\* PrecisionMatrix.get_decomposition_matrix
get_decomposition_matrix(value) == value

\* Xb.T of an ensemble given as a sequence of rows.
transpose(Xb) ==
  tuple([c \in 1..Len(Xb[1]) |-> tuple([r \in 1..Len(Xb) |-> Xb[r][c]])])

\* M.T @ D @ M for the matrix M of T, as an n x n matrix.
TtDT_matrix(M, D, n) ==
  tuple([r \in 1..n |-> tuple([c \in 1..n |-> TtDT(M, D, n, r, c)])])

\* core.precision_matrix: the same checks and the same loop as the class, on
\* Xb_ = Xb.T, and T.T @ D @ T returned.
core_precision_matrix(Xb, pred, n, alpha) ==
  IF Xb.type # "ndarray" \/ Xb.ndim # 2 THEN Raise("ValueError")
  ELSE IF pred.type # "list" THEN Raise("TypeError")
  ELSE IF ~isinstance_int(n) \/ n.val <= 0 THEN Raise("ValueError")
  ELSE IF ~isinstance_int(alpha) \/ alpha.val <= 0 THEN Raise("ValueError")
  ELSE IF Len(pred.val) # n.val THEN Raise("ValueError")
  ELSE LET out == calculate_precision_matrix(transpose(Xb.val), pred.val, n.val, alpha.val)
       IN IF out.kind = "raise" THEN out
          ELSE Return(TtDT_matrix(coo_to_matrix(out.val.T, n.val), out.val.D, n.val))

\* A get_all_predecessors that recomputes on every call.
get_all_predecessors_recompute(cache, shape, radius, x_bound, y_bound) ==
  all_results(shape, radius, x_bound, y_bound)

\* What get_all_predecessors returns or raises, given self.all_predecessors.
get_all_predecessors(cache, shape, radius, x_bound, y_bound) ==
  IF cache.set THEN Return(cache.val)
  ELSE all_results(shape, radius, x_bound, y_bound)

\* ------------------------------------------------------------- state
VARIABLES
  shape,             \* self.matrix.shape of the Predecessor object
  all_predecessors,  \* self.all_predecessors
  call,              \* the last call made on the object and its arguments
  ret,               \* what that call returned or raised
  first_return,      \* what the first get_all_predecessors call that returned, returned
  pm,                \* the PrecisionMatrix object: None, or its fields with self.value
  pm_call,           \* the last call on the estimator and its arguments
  pm_ret,            \* what that call returned or raised
  callers,           \* per thread inside get_all_predecessors: where it is, its arguments
  writes             \* how many times self.all_predecessors was assigned a list

vars == <<shape, all_predecessors, call, ret, first_return, pm, pm_call, pm_ret,
          callers, writes>>

thread_vars == <<callers, writes>>

pred_vars == <<shape, all_predecessors, call, ret, first_return>>

pm_vars == <<pm, pm_call, pm_ret>>

\* ------------------------------------------------------------ inputs
Shapes == (1..MaxL) \X (1..MaxV) \X (1..MaxK) \X (1..MaxM)

SmallShapes ==
  {s \in (1..MaxCells) \X (1..MaxCells) \X (1..MaxCells) \X (1..MaxCells) :
     s[1] * s[2] * s[3] * s[4] <= MaxCells}

RadiusArgs == {PyInt(r) : r \in 0..MaxRadius} \cup {PyStr}

FlagArgs == {PyBool(TRUE), PyBool(FALSE), PyStr}

InRange(s) == (0..(s[1] - 1)) \X (0..(s[2] - 1)) \X (0..(s[3] - 1)) \X (0..(s[4] - 1))

\* Well-typed points just outside the field, one coordinate off.
OutOfRange(s) ==
  { [a \in 1..4 |-> IF a = b THEN s[b] ELSE 0] : b \in 1..4 }
    \cup { [a \in 1..4 |-> IF a = b THEN -1 ELSE 0] : b \in 1..4 }

\* Every kind of point argument: in the field, outside it, malformed.
PointArgs(s) ==
  {PyPoint("tuple", TRUE, p) : p \in InRange(s) \cup OutOfRange(s)}
    \cup {PyPoint("tuple", TRUE, <<0, 0, 0>>),
          PyPoint("list", TRUE, <<0, 0, 0, 0>>),
          PyPoint("tuple", FALSE, <<0, 0, 0, 0>>)}

\* The point arguments tried on an object that is followed over many calls.
FewPointArgs(s) ==
  {PyPoint("tuple", TRUE, p) :
     p \in InRange(s) \cup {<<0, 0, 0, s[4]>>, <<0, 0, -1, 0>>}}
    \cup {PyPoint("tuple", TRUE, <<0, 0, 0>>)}

\* Ensemble members: step fields, 1 on the first t features and 0 after; an
\* ensemble lists its members by non-decreasing t.
StepField(n, t) == [f \in 1..n |-> IF f <= t THEN 1 ELSE 0]

Ensembles(n) ==
  {[s \in 1..Samples |-> StepField(n, t[s])] :
     t \in {u \in [1..Samples -> 0..n] : \A s \in 1..(Samples - 1) : u[s] <= u[s + 1]}}

\* The ensembles tried with the predecessor lists of a whole grid: member s is
\* the impulse field, 1 at one feature (feature t + s, cyclically) and 0
\* elsewhere, for the first and the last offset t.
GridEnsembles(n) ==
  {[s \in 1..Samples |-> [f \in 1..n |-> IF f = ((t + s - 1) % n) + 1 THEN 1 ELSE 0]] :
     t \in {0, n - 1}}

PredLists(n) == [1..n -> {SortedSeq(S) : S \in SUBSET (0..(n - 1))}]

\* Predecessor lists in which feature i names earlier features only.
LowerPredLists(n) ==
  {p \in PredLists(n) : \A i \in 1..n : \A a \in DOMAIN p[i] : p[i][a] < i - 1}

NdArray(ndim, rows) == [type |-> "ndarray", ndim |-> ndim, val |-> rows]

PyList(type, items) == [type |-> type, val |-> items]

CtorCall(Xb, pred, n, alpha, grid) ==
  [op |-> "PrecisionMatrix", Xb |-> Xb, pred |-> pred, n |-> n, alpha |-> alpha,
   grid |-> grid]

\* One malformed call per check of the constructor, and an ensemble with
\* fewer columns than n.
BadCtorArgs ==
  LET X == <<<<1, 0>>, <<1, 1>>>>
      p == <<<<>>, <<0>>>>
  IN {CtorCall(NdArray(1, X), PyList("list", p), PyInt(2), PyInt(1), <<>>),
      CtorCall(NdArray(3, X), PyList("list", p), PyInt(2), PyInt(1), <<>>),
      CtorCall(NdArray(2, X), PyList("tuple", p), PyInt(2), PyInt(1), <<>>),
      CtorCall(NdArray(2, X), PyList("list", p), PyInt(0), PyInt(1), <<>>),
      CtorCall(NdArray(2, X), PyList("list", p), PyStr, PyInt(1), <<>>),
      CtorCall(NdArray(2, X), PyList("list", p), PyInt(2), PyInt(0), <<>>),
      CtorCall(NdArray(2, X), PyList("list", p), PyInt(2), PyStr, <<>>),
      CtorCall(NdArray(2, X), PyList("list", p), PyInt(3), PyInt(1), <<>>),
      CtorCall(NdArray(2, X), PyList("list", p \o <<<<1>>>>), PyInt(3), PyInt(1), <<>>)}

GridShapes ==
  {s \in (1..MaxGrid) \X (1..MaxGrid) \X (1..MaxGrid) \X (1..MaxGrid) :
     s[1] * s[2] * s[3] * s[4] <= MaxGrid}

NoPMCall == [op |-> "none"]

NoCall == [op |-> "none", point |-> PyPoint("tuple", TRUE, <<>>),
           radius |-> PyInt(0), x_bound |-> PyBool(TRUE), y_bound |-> PyBool(TRUE)]

\* A thread outside get_all_predecessors.
Idle == [pc |-> "idle", radius |-> PyInt(0), x_bound |-> PyBool(TRUE),
         y_bound |-> PyBool(TRUE)]

Callers == 1..NumCallers

NoCallers ==
  /\ callers = [t \in Callers |-> Idle]
  /\ writes = 0

\* ----------------------------------------------------------- actions
\* Predecessor.__init__ on a 4-dimensional array.
NoEstimator ==
  /\ pm = None
  /\ pm_call = NoPMCall
  /\ pm_ret = Return(<<>>)

Init ==
  /\ shape \in SmallShapes
  /\ all_predecessors = None
  /\ call = NoCall
  /\ ret = Return(<<>>)
  /\ first_return = None
  /\ NoEstimator
  /\ NoCallers

InitPoint ==
  /\ shape \in Shapes
  /\ all_predecessors = None
  /\ call = NoCall
  /\ ret = Return(<<>>)
  /\ first_return = None
  /\ NoEstimator
  /\ NoCallers

GetPointPredecessors(points) ==
  \E point \in points, radius \in RadiusArgs,
     x_bound \in FlagArgs, y_bound \in FlagArgs :
    /\ call' = [op |-> "get_point_predecessors", point |-> point,
                radius |-> radius, x_bound |-> x_bound, y_bound |-> y_bound]
    /\ ret' = get_point_predecessors(shape, point, radius, x_bound, y_bound)
    /\ UNCHANGED <<shape, all_predecessors, first_return, pm_vars, thread_vars>>

GetAllPredecessors ==
  \E radius \in RadiusArgs, x_bound \in FlagArgs, y_bound \in FlagArgs :
    LET out == get_all_predecessors(all_predecessors, shape, radius, x_bound, y_bound)
    IN /\ call' = [op |-> "get_all_predecessors", point |-> NoCall.point,
                   radius |-> radius, x_bound |-> x_bound, y_bound |-> y_bound]
       /\ ret' = out
       /\ all_predecessors' =
            IF ~all_predecessors.set /\ out.kind = "return"
              THEN Some(out.val) ELSE all_predecessors
       /\ first_return' =
            IF ~first_return.set /\ out.kind = "return"
              THEN Some(out.val) ELSE first_return
       /\ writes' = IF ~all_predecessors.set /\ out.kind = "return"
                      THEN writes + 1 ELSE writes
       /\ UNCHANGED <<shape, pm_vars, callers>>

Next == GetPointPredecessors(FewPointArgs(shape)) \/ GetAllPredecessors

Spec == Init /\ [][Next]_vars

\* One call of get_point_predecessors on a fresh object.
CallPoint == call.op = "none" /\ GetPointPredecessors(PointArgs(shape))

NextPoint == CallPoint

SpecPoint == InitPoint /\ [][NextPoint]_vars

\* One application of a bounds function to an in-range point, a positive
\* radius and boolean flags.
CalculateBounds(name, result) ==
  /\ call.op = "none"
  /\ \E p \in InRange(shape), r \in 1..MaxRadius, x_bound \in BOOLEAN, y_bound \in BOOLEAN :
       /\ call' = [op |-> name, point |-> PyPoint("tuple", TRUE, p), radius |-> PyInt(r),
                   x_bound |-> PyBool(x_bound), y_bound |-> PyBool(y_bound)]
       /\ ret' = Return(IF result = "utils"
                          THEN utils_calculate_bounds(shape, p, r, x_bound, y_bound)
                          ELSE calculate_bounds(shape, p, r, x_bound, y_bound))
  /\ UNCHANGED <<shape, all_predecessors, first_return, pm_vars, thread_vars>>

PredecessorCalculateBounds == CalculateBounds("Predecessor.__calculate_bounds", "class")

UtilsCalculateBounds == CalculateBounds("utils._calculate_bounds", "utils")

NextBounds == PredecessorCalculateBounds \/ UtilsCalculateBounds

SpecBounds == InitPoint /\ [][NextBounds]_vars

\* The first two steps of get_point_predecessors for an in-range point, a
\* positive radius and boolean flags: the bounds, then the index sets.
GetIndices ==
  /\ call.op = "none"
  /\ \E p \in InRange(shape), r \in 1..MaxRadius, x_bound \in BOOLEAN, y_bound \in BOOLEAN :
       LET b == calculate_bounds(shape, p, r, x_bound, y_bound)
           ind == get_indices(shape, b[1], b[2], b[3], b[4], p[3])
       IN /\ call' = [op |-> "Predecessor.__get_indices",
                       point |-> PyPoint("tuple", TRUE, p), radius |-> PyInt(r),
                       x_bound |-> PyBool(x_bound), y_bound |-> PyBool(y_bound)]
          /\ ret' = Return([k_ind |-> ind[1], l_ind |-> ind[2],
                            fallback |-> fallback_taken(shape, b[1], b[2])])
  /\ UNCHANGED <<shape, all_predecessors, first_return, pm_vars, thread_vars>>

NextIndices == GetIndices

SpecIndices == InitPoint /\ [][NextIndices]_vars

\* The positions of a whole field, as rows (i, j, k, l).
GridPositions(s) ==
  meshgrid_rows(arange(0, s[1]), arange(0, s[2]), arange(0, s[3]), arange(0, s[4]))

\* One application of a flattening function to an array of positions: one
\* in-range position, or every position of the field.
FlatIndices(name, result) ==
  /\ call.op = "none"
  /\ \E positions \in {<<p>> : p \in InRange(shape)} \cup {GridPositions(shape)} :
       /\ call' = [NoCall EXCEPT !.op = name] @@ [positions |-> positions]
       /\ ret' = Return(IF result = "utils"
                          THEN utils_flat_indices(positions, shape)
                          ELSE flat_indices(positions, shape))
  /\ UNCHANGED <<shape, all_predecessors, first_return, pm_vars, thread_vars>>

PredecessorFlatIndices == FlatIndices("Predecessor.__flat_indices", "class")

UtilsFlatIndices == FlatIndices("utils._flat_indices", "utils")

NextFlat == PredecessorFlatIndices \/ UtilsFlatIndices

SpecFlat == InitPoint /\ [][NextFlat]_vars

\* The matrix arguments tried: a 4-dimensional array of shape s, a list, and
\* a 2-dimensional array.
MatrixArgs(s) ==
  {PyMatrix("ndarray", 4, s), PyMatrix("list", 0, <<>>), PyMatrix("ndarray", 2, <<2, 2>>)}

\* No Predecessor object yet.
InitLookup ==
  /\ shape = <<>>
  /\ all_predecessors = None
  /\ call = NoCall
  /\ ret = Return(<<>>)
  /\ first_return = None
  /\ NoEstimator
  /\ NoCallers

\* Predecessor(matrix): the object exists only if __init__ does not raise.
PredecessorInit ==
  /\ call.op = "none"
  /\ \E s \in SmallShapes : \E matrix \in MatrixArgs(s) :
       LET out == predecessor_init(matrix)
       IN /\ call' = [NoCall EXCEPT !.op = "Predecessor"] @@ [matrix |-> matrix]
          /\ ret' = IF out.kind = "raise" THEN out ELSE Return(<<>>)
          /\ shape' = IF out.kind = "raise" THEN <<>> ELSE out.val
          /\ all_predecessors' = None
  /\ UNCHANGED <<first_return, pm_vars, thread_vars>>

\* One get_point_predecessors call on the object just constructed.
LookupPoint ==
  /\ call.op = "Predecessor" /\ shape # <<>>
  /\ GetPointPredecessors(PointArgs(shape))

\* core.predecessors(matrix, point, radius, x_bound, y_bound): a free
\* function, no object.
CorePredecessors ==
  /\ call.op = "none"
  /\ \E s \in SmallShapes : \E matrix \in MatrixArgs(s), point \in PointArgs(s),
          radius \in RadiusArgs, x_bound \in FlagArgs, y_bound \in FlagArgs :
       /\ call' = [op |-> "predecessors", matrix |-> matrix, point |-> point,
                   radius |-> radius, x_bound |-> x_bound, y_bound |-> y_bound]
       /\ ret' = core_predecessors(matrix, point, radius, x_bound, y_bound)
  /\ UNCHANGED <<shape, all_predecessors, first_return, pm_vars, thread_vars>>

NextLookup == PredecessorInit \/ LookupPoint \/ CorePredecessors

SpecLookup == InitLookup /\ [][NextLookup]_vars

\* Thread t calls get_all_predecessors and runs the test of line 158: with
\* the cache set it returns at once, otherwise it goes on to the loop.
Enter(t) ==
  /\ callers[t].pc = "idle"
  /\ \E r \in 0..MaxRadius, x_bound \in BOOLEAN, y_bound \in BOOLEAN :
       callers' = [callers EXCEPT ![t] =
                     IF all_predecessors.set THEN Idle
                     ELSE [pc |-> "loop", radius |-> PyInt(r),
                           x_bound |-> PyBool(x_bound), y_bound |-> PyBool(y_bound)]]
  /\ UNCHANGED <<pred_vars, pm_vars, writes>>

\* Thread t finishes the loop of lines 160-167: it raises, or it assigns the
\* list to self.all_predecessors (line 168) and returns it.
Finish(t) ==
  /\ callers[t].pc = "loop"
  /\ LET out == all_results(shape, callers[t].radius, callers[t].x_bound,
                            callers[t].y_bound)
     IN /\ all_predecessors' = IF out.kind = "return" THEN Some(out.val)
                                ELSE all_predecessors
        /\ writes' = IF out.kind = "return" THEN writes + 1 ELSE writes
  /\ callers' = [callers EXCEPT ![t] = Idle]
  /\ UNCHANGED <<shape, call, ret, first_return, pm_vars>>

NextThreads == \E t \in Callers : Enter(t) \/ Finish(t)

SpecThreads == Init /\ [][NextThreads]_vars

\* ---------------------------------------------------- estimator actions
InitPM ==
  /\ shape = <<1, 1, 1, 1>>
  /\ all_predecessors = None
  /\ call = NoCall
  /\ ret = Return(<<>>)
  /\ first_return = None
  /\ NoEstimator
  /\ NoCallers

\* PrecisionMatrix(Xb, pred, n, alpha): the object exists only if __init__
\* does not raise.
Construct(c) ==
  LET out == precision_matrix_init(c.Xb, c.pred, c.n, c.alpha)
  IN /\ pm_call' = c
     /\ pm_ret' = IF out.kind = "raise" THEN out ELSE Return(<<>>)
     /\ pm' = IF out.kind = "raise" THEN None
              ELSE Some([Xb |-> c.Xb.val, pred |-> c.pred.val, n |-> c.n.val,
                         alpha |-> c.alpha.val, value |-> out.val])
     /\ UNCHANGED <<pred_vars, thread_vars>>

\* Arguments that pass every check: an ensemble of n features and one
\* predecessor array per feature.
PrecisionMatrixInit ==
  /\ pm_call.op = "none"
  /\ \E n \in 1..MaxN :
       \E X \in Ensembles(n), p \in PredLists(n) :
         Construct(CtorCall(NdArray(2, X), PyList("list", p), PyInt(n),
                            PyInt(DefaultAlpha), <<>>))

PrecisionMatrixInitMalformed ==
  /\ pm_call.op = "none"
  /\ \E c \in BadCtorArgs : Construct(c)

\* The pipeline of the package: the predecessor lists of a whole grid, from
\* get_all_predecessors on a fresh Predecessor, list position i as feature i.
PrecisionMatrixFromGrid ==
  /\ pm_call.op = "none"
  /\ \E s \in GridShapes, r \in 1..MaxRadius, x_bound \in BOOLEAN, y_bound \in BOOLEAN :
       LET all == get_all_predecessors(None, s, PyInt(r), PyBool(x_bound), PyBool(y_bound))
           n == s[1] * s[2] * s[3] * s[4]
       IN \E X \in GridEnsembles(n) :
            Construct(CtorCall(NdArray(2, X), PyList("list", all.val), PyInt(n),
                               PyInt(DefaultAlpha), <<s, r, x_bound, y_bound>>))

GetDecompositionMatrix ==
  /\ pm.set
  /\ pm_call' = [op |-> "get_decomposition_matrix"]
  /\ pm_ret' = Return(get_decomposition_matrix(pm.val.value))
  /\ UNCHANGED <<pm, pred_vars, thread_vars>>

GetMatrix ==
  /\ pm.set
  /\ pm_call' = [op |-> "get_matrix"]
  /\ pm_ret' = Return(get_matrix(pm.val.value))
  /\ UNCHANGED <<pm, pred_vars, thread_vars>>

\* core.precision_matrix(Xb, pred, n, alpha): a free function, no object.
CallCore(c) ==
  /\ pm_call' = [c EXCEPT !.op = "precision_matrix"]
  /\ pm_ret' = core_precision_matrix(c.Xb, c.pred, c.n, c.alpha)
  /\ UNCHANGED <<pm, pred_vars, thread_vars>>

CorePrecisionMatrix ==
  /\ pm_call.op = "none"
  /\ \E n \in 1..MaxN :
       \E X \in Ensembles(n), p \in LowerPredLists(n) :
         CallCore(CtorCall(NdArray(2, X), PyList("list", p), PyInt(n),
                           PyInt(DefaultAlpha), <<>>))

CorePrecisionMatrixMalformed ==
  /\ pm_call.op = "none"
  /\ \E c \in BadCtorArgs : CallCore(c)

NextPM ==
  \/ PrecisionMatrixInit
  \/ PrecisionMatrixInitMalformed
  \/ PrecisionMatrixFromGrid
  \/ GetDecompositionMatrix
  \/ GetMatrix
  \/ CorePrecisionMatrix
  \/ CorePrecisionMatrixMalformed

SpecPM == InitPM /\ [][NextPM]_vars

\* ============================================================ claims
\* The last call was get_point_predecessors with a well-typed in-range point,
\* a positive integer radius and boolean flags.
ValidPointCall ==
  /\ call.op = "get_point_predecessors"
  /\ call.point.type = "tuple" /\ call.point.ints /\ Len(call.point.val) = 4
  /\ validate_point(shape, call.point.val)
  /\ call.radius.type = "int" /\ call.radius.val >= 1
  /\ call.x_bound.type = "bool" /\ call.y_bound.type = "bool"

\* The canonical flat index m*V*K*L + k*V*L + v*L + l of the spec, for the
\* point (l, v, k, m) of a field of shape (L, V, K, M).
CanonicalIndex(p, s) == p[4] * s[2] * s[3] * s[1] + p[3] * s[2] * s[1] + p[2] * s[1] + p[1]

\* C1: every flat index returned by get_point_predecessors for an in-range
\* point is strictly less than the point's own canonical flat index.
C1_PredecessorsBelowOwnIndex ==
  ValidPointCall =>
    \A t \in DOMAIN ret.val : ret.val[t] < CanonicalIndex(call.point.val, shape)

\* The estimator was just constructed, without error, from the predecessor
\* lists of a whole grid.
BuiltFromGrid ==
  pm_call.op = "PrecisionMatrix" /\ pm_call.grid # <<>> /\ pm.set

\* C2: with pred the list returned by get_all_predecessors for a grid, every
\* stored off-diagonal entry (i, j) of T has j < i.
C2_GridFactorLowerTriangular ==
  BuiltFromGrid =>
    \A t \in DOMAIN pm.val.value.T :
      LET e == pm.val.value.T[t]
      IN e.i # e.j => e.j < e.i

\* T^t D T of the factors (T, D), by the generic matrix product.
TripleProduct(value) ==
  LET n == Len(value.D)
      M == coo_to_matrix(value.T, n)
  IN tuple([r \in 1..n |-> tuple([c \in 1..n |-> TtDT(M, value.D, n, r, c)])])

\* C3: the matrix returned by get_matrix equals T^t D T of the factors
\* returned by get_decomposition_matrix.
C3_MatrixIsTripleProduct ==
  (pm_call.op = "get_matrix" /\ pm.set) =>
    pm_ret = Return(TripleProduct(get_decomposition_matrix(pm.val.value)))

\* C4: once a get_all_predecessors call has returned, every later
\* get_all_predecessors call, whatever its arguments, returns that first result.
C4_LaterCallsReturnFirstResult ==
  (call.op = "get_all_predecessors" /\ first_return.set) =>
    ret = Return(first_return.val)

\* A later call whose own arguments would have produced something else was
\* answered with the first result.
C4_Witness ==
  /\ call.op = "get_all_predecessors" /\ first_return.set
  /\ ret = Return(first_return.val)
  /\ all_results(shape, call.radius, call.x_bound, call.y_bound) # ret

\* C5: a get_all_predecessors call whose radius is not a positive integer or
\* whose flag is not a boolean raises, whatever the state of the cache.
C5_InvalidArgumentsRaise ==
  (/\ call.op = "get_all_predecessors"
   /\ \/ call.radius.type # "int" \/ call.radius.val <= 0
      \/ call.x_bound.type # "bool" \/ call.y_bound.type # "bool")
    => ret.kind = "raise"

\* The last call was the constructor, with arguments that pass each of its
\* checks and predecessor indices that all name existing features.
AcceptableCtorCall ==
  /\ pm_call.op = "PrecisionMatrix"
  /\ pm_call.Xb.type = "ndarray" /\ pm_call.Xb.ndim = 2
  /\ pm_call.pred.type = "list"
  /\ isinstance_int(pm_call.n) /\ pm_call.n.val > 0
  /\ isinstance_int(pm_call.alpha) /\ pm_call.alpha.val > 0
  /\ Len(pm_call.pred.val) = pm_call.n.val
  /\ Len(pm_call.Xb.val[1]) = pm_call.n.val
  /\ \A t \in DOMAIN pm_call.pred.val : \A a \in DOMAIN pm_call.pred.val[t] :
        pm_call.pred.val[t][a] \in 0..(pm_call.n.val - 1)

\* The entries of T recorded for feature i (row i), in the order recorded.
RowEntries(T, i) == SelectSeq(T, LAMBDA e : e.i = i)

\* C6: for every feature i, an empty pred[i] gives D[i] = 1 / variance of the
\* raw column i and a row i of T with the diagonal entry only; a non-empty
\* pred[i] gives a regression with one entry T[i, j] recorded per j in pred[i].
C6_EmptyPredecessorsRule ==
  AcceptableCtorCall =>
    /\ pm.set
    /\ \A t \in DOMAIN pm_call.pred.val :
         LET p == pm_call.pred.val[t]
             row == RowEntries(pm.val.value.T, t - 1)
         IN IF p = <<>>
              THEN /\ pm.val.value.D[t] = QInv(np_var(column(pm_call.Xb.val, t - 1), 1))
                   /\ row = <<[i |-> t - 1, j |-> t - 1, v |-> QInt(1)]>>
              ELSE /\ Len(row) = 1 + Len(p)
                   /\ \A a \in DOMAIN p : row[1 + a].j = p[a]

\* C7: for every accepted input T[i, i] = 1 for each feature i, and every
\* other position (i, j) of T that holds a value has j in pred[i].
C7_UnitDiagonalAndSupport ==
  pm.set =>
    LET n == pm.val.n
        M == coo_to_matrix(pm.val.value.T, n)
    IN \A r \in 1..n :
         /\ M[r][r].v = QInt(1)
         /\ \A c \in 1..n :
              (c # r /\ M[r][c].stored) => (c - 1) \in Range(pm.val.pred[r])

\* The flat indices of the in-range points whose coordinate on axis a is c.
IndicesAt(s, a, c) == {CanonicalIndex(p, s) : p \in {q \in InRange(s) : q[a] = c}}

\* C8: with a periodic axis (flag False), a point at coordinate 0 of that axis
\* and a radius r < axis size, the result holds the flat index of an in-range
\* point at coordinate axis_size - r of that axis.
C8_WrappedPredecessorPresent ==
  ValidPointCall =>
    LET p == call.point.val
        r == call.radius.val
    IN /\ (call.y_bound.val = 0 /\ p[3] = 0 /\ r < shape[3]) =>
            Range(ret.val) \cap IndicesAt(shape, 3, shape[3] - r) # {}
       /\ (call.x_bound.val = 0 /\ p[4] = 0 /\ r < shape[4]) =>
            Range(ret.val) \cap IndicesAt(shape, 4, shape[4] - r) # {}

\* The window of radius r around the point's latitude and longitude lies
\* inside the field.
Interior(p, r, s) ==
  /\ r <= p[3] /\ p[3] <= s[3] - 1 - r
  /\ r <= p[4] /\ p[4] <= s[4] - 1 - r

\* C9: for an interior point (l, v, k, m) the number of predecessors is
\* l*V*(2r+1)^2 + v*(2r+1)^2 + r*(2r+1) + r, whatever the flags.
C9_InteriorCount ==
  (ValidPointCall /\ Interior(call.point.val, call.radius.val, shape)) =>
    LET p == call.point.val
        w == 2 * call.radius.val + 1
    IN Len(ret.val) = p[1] * shape[2] * w * w + p[2] * w * w
                        + call.radius.val * w + call.radius.val

C9_Witness ==
  /\ ValidPointCall /\ Interior(call.point.val, call.radius.val, shape)
  /\ call.point.val[1] > 0 /\ call.point.val[2] > 0
  /\ call.radius.val = 2
  /\ call.x_bound.val = 0 /\ call.y_bound.val = 1
  /\ Len(ret.val) = 87

\* C10: with both axes bounded the list is strictly shorter than with both
\* periodic when the window crosses a low edge (k < r or m < r), and never
\* longer at any other in-range point.
C10_BoundedShorterThanPeriodic ==
  (ValidPointCall /\ call.x_bound.val = 1 /\ call.y_bound.val = 1) =>
    LET p == call.point.val
        r == call.radius.val
        periodic == point_predecessors(shape, p, r, FALSE, FALSE)
    IN /\ (p[3] < r \/ p[4] < r) => Len(ret.val) < Len(periodic)
       /\ Len(ret.val) <= Len(periodic)

C10_Witness ==
  /\ ValidPointCall /\ call.x_bound.val = 1 /\ call.y_bound.val = 1
  /\ call.point.val[3] = 0 /\ call.point.val[4] > 0 /\ call.point.val[1] > 0
  /\ Len(ret.val) < Len(point_predecessors(shape, call.point.val,
                                           call.radius.val, FALSE, FALSE))

\* C11: the list returned by get_point_predecessors for an in-range point
\* never holds the point's own canonical flat index.
C11_OwnIndexAbsent ==
  ValidPointCall =>
    CanonicalIndex(call.point.val, shape) \notin Range(ret.val)

\* A point with predecessors in all four groups, on periodic axes, at the
\* low corner of the window.
C11_Witness ==
  /\ ValidPointCall
  /\ call.point.val[1] > 0 /\ call.point.val[2] > 0
  /\ call.point.val[3] = 0 /\ call.point.val[4] = 0
  /\ call.x_bound.val = 0 /\ call.y_bound.val = 0
  /\ call.radius.val = 2
  /\ Len(ret.val) > 0
  /\ CanonicalIndex(call.point.val, shape) \notin Range(ret.val)

\* A call of get_point_predecessors with a 4-tuple of integers outside the
\* field, a positive integer radius and boolean flags.
OutOfRangeCall(c, s) ==
  /\ c.op = "get_point_predecessors"
  /\ c.point.type = "tuple" /\ c.point.ints /\ Len(c.point.val) = 4
  /\ ~validate_point(s, c.point.val)
  /\ c.radius.type = "int" /\ c.radius.val >= 1
  /\ c.x_bound.type = "bool" /\ c.y_bound.type = "bool"

C20_NoRepeatedIndex ==
  ValidPointCall =>
    \A a, b \in DOMAIN ret.val : ret.val[a] = ret.val[b] => a = b

\* The last call built the estimator from the result of the first
\* get_all_predecessors call on a fresh Predecessor (whether or not the
\* estimator's constructor then accepted it).
GridCall == pm_call.op = "PrecisionMatrix" /\ pm_call.grid # <<>>

\* C12: the first get_all_predecessors(r, x, y) call returns L*V*K*M entries,
\* and the entry at position ((l*V + v)*M + m)*K + k is
\* get_point_predecessors((l, v, k, m), r, x, y).
C12_OneEntryPerPointInLoopOrder ==
  GridCall =>
    LET s == pm_call.grid[1]
        r == PyInt(pm_call.grid[2])
        x == PyBool(pm_call.grid[3])
        y == PyBool(pm_call.grid[4])
        all == pm_call.pred.val
    IN /\ Len(all) = s[1] * s[2] * s[3] * s[4]
       /\ \A q \in InRange(s) :
            all[((q[1] * s[2] + q[2]) * s[4] + q[4]) * s[3] + q[3] + 1]
              = get_point_predecessors(s, PyPoint("tuple", TRUE, q), r, x, y).val

\* A grid with several latitudes and several longitudes, where the order of
\* the two inner loops shows.
C12_Witness ==
  /\ GridCall
  /\ pm_call.grid[1][3] >= 2 /\ pm_call.grid[1][4] >= 3
  /\ Len(pm_call.pred.val) = 6
  /\ pm_call.pred.val[2] =
       get_point_predecessors(pm_call.grid[1], PyPoint("tuple", TRUE, <<0, 0, 1, 0>>),
                              PyInt(pm_call.grid[2]), PyBool(pm_call.grid[3]),
                              PyBool(pm_call.grid[4])).val
  /\ pm_call.pred.val[2] # pm_call.pred.val[3]

\* The last call built an estimator, by the class or by the free function.
EstimatorCall == pm_call.op \in {"PrecisionMatrix", "precision_matrix"}

\* C13: an ensemble that is not 2-dimensional, a pred whose length differs
\* from n, or alpha <= 0 makes the construction raise, and no factorisation
\* is stored or returned.
C13_MalformedConstructionRaises ==
  (/\ EstimatorCall
   /\ \/ pm_call.Xb.ndim # 2
      \/ pm_call.n.type = "int" /\ Len(pm_call.pred.val) # pm_call.n.val
      \/ pm_call.alpha.type = "int" /\ pm_call.alpha.val <= 0)
    => (pm_ret.kind = "raise" /\ pm_ret.val = <<>> /\ ~pm.set)

\* The constructor of the class was refused for alpha = 0 alone.
C13_Witness ==
  /\ pm_call.op = "PrecisionMatrix"
  /\ pm_call.Xb.ndim = 2 /\ Len(pm_call.pred.val) = pm_call.n.val
  /\ pm_call.alpha = PyInt(0)
  /\ pm_ret = Raise("ValueError") /\ ~pm.set

\* C17: for an input both accept, core.precision_matrix returns what the
\* class returns from get_matrix for the same arguments.
C17_FunctionEqualsClass ==
  (pm_call.op = "precision_matrix" /\ pm_ret.kind = "return") =>
    LET built == precision_matrix_init(pm_call.Xb, pm_call.pred, pm_call.n, pm_call.alpha)
    IN built.kind = "return" => pm_ret.val = get_matrix(built.val)

\* C16: both bounds functions return, for a bounded axis, max(c - r, 0) and
\* the exclusive upper bound min(axis_size, c + r + 1), and for a periodic
\* axis (c - r, c + r + 1); y_bound governs latitude, x_bound longitude.
C16_BoundsContract ==
  call.op \in {"Predecessor.__calculate_bounds", "utils._calculate_bounds"} =>
    LET p == call.point.val
        r == call.radius.val
        low(c, bounded) == IF bounded /\ c - r < 0 THEN 0 ELSE c - r
        high(c, size, bounded) == IF bounded /\ size < c + r + 1 THEN size ELSE c + r + 1
    IN ret.val = << low(p[3], call.y_bound.val = 1),
                    high(p[3], shape[3], call.y_bound.val = 1),
                    low(p[4], call.x_bound.val = 1),
                    high(p[4], shape[4], call.x_bound.val = 1) >>

\* The error kind of the first failing check, in the order field not an
\* array, field not 4-dimensional, point not a 4-tuple of integers, radius not
\* a positive integer, flag not a boolean; "" when no check fails.
FirstFailingCheck(matrix, point, radius, x_bound, y_bound) ==
  IF matrix.type # "ndarray" THEN "TypeError"
  ELSE IF matrix.ndim # 4 THEN "ValueError"
  ELSE IF point.type # "tuple" \/ ~point.ints \/ Len(point.val) # 4 THEN "ValueError"
  ELSE IF radius.type \notin {"int", "bool"} \/ radius.val < 1 THEN "ValueError"
  ELSE IF x_bound.type # "bool" \/ y_bound.type # "bool" THEN "TypeError"
  ELSE ""

\* C15: predecessor lookup rejects malformed input with the error kind of the
\* first failing check, and leaves no result and no cache state.
C15_FirstFailingCheckDecides ==
  LET e == IF call.op = "predecessors"
             THEN FirstFailingCheck(call.matrix, call.point, call.radius,
                                    call.x_bound, call.y_bound)
           ELSE IF call.op = "Predecessor"
             THEN FirstFailingCheck(call.matrix, PyPoint("tuple", TRUE, <<0, 0, 0, 0>>),
                                    PyInt(1), PyBool(TRUE), PyBool(TRUE))
           ELSE IF call.op = "get_point_predecessors"
             THEN FirstFailingCheck(PyMatrix("ndarray", 4, shape), call.point,
                                    call.radius, call.x_bound, call.y_bound)
           ELSE ""
  IN e # "" => (ret = Raise(e) /\ all_predecessors = None
                  /\ (call.op = "Predecessor" => shape = <<>>))

\* A call with a malformed point, radius and flag on a good field was
\* rejected for the point.
C15_Witness ==
  /\ call.op \in {"predecessors", "get_point_predecessors"}
  /\ call.op = "predecessors" => call.matrix.ndim = 4
  /\ call.point.type = "list" /\ call.radius = PyInt(0) /\ call.x_bound = PyStr
  /\ ret = Raise("ValueError") /\ all_predecessors = None

\* C18: self.all_predecessors is assigned at most once over the object's
\* lifetime, also when callers interleave between the test of the cache and
\* the assignment.
C18_CacheAssignedAtMostOnce == writes <= 1

\* The ensemble with every column other than i and those of p replaced by
\* other values (1 - x).
OtherColumnsChanged(Xb, i, p) ==
  tuple([t \in DOMAIN Xb |-> tuple([f \in DOMAIN Xb[t] |->
    IF f - 1 = i \/ (f - 1) \in Range(p) THEN Xb[t][f] ELSE 1 - Xb[t][f]])])

\* C19: D[i] and the entries of row i of T are a function of i, alpha, column
\* i and the columns pred[i] only: computing feature i alone, on an ensemble
\* whose other columns differ, gives the same entries and the same D[i], so
\* the order in which the features are processed does not matter.
C19_FeatureDependsOnOwnColumnsOnly ==
  (pm_call.op = "PrecisionMatrix" /\ pm.set) =>
    \A t \in DOMAIN pm.val.pred :
      LET alone == feature_step(OtherColumnsChanged(pm.val.Xb, t - 1, pm.val.pred[t]),
                                t - 1, pm.val.pred[t], pm.val.alpha)
      IN /\ RowEntries(pm.val.value.T, t - 1) = alone.T
         /\ pm.val.value.D[t] = alone.D

\* An estimator in which a feature has a non-zero coefficient and leaves
\* another feature's column, which is not constant, unread.
C19_Witness ==
  /\ pm_call.op = "PrecisionMatrix" /\ pm.set
  /\ \E t \in DOMAIN pm.val.pred :
       /\ t > 1
       /\ \E f \in 0..(pm.val.n - 1) :
            /\ f # t - 1 /\ f \notin Range(pm.val.pred[t])
            /\ \E a, b \in DOMAIN pm.val.Xb : pm.val.Xb[a][f + 1] # pm.val.Xb[b][f + 1]
       /\ Len(RowEntries(pm.val.value.T, t - 1)) >= 2
       /\ RowEntries(pm.val.value.T, t - 1)[2].v.num # 0

\* C21: every value returned by get_point_predecessors for an in-range point,
\* a radius r >= 1 and boolean flags is the flat index of an in-range grid
\* point: it lies in [0, L*V*K*M).
C21_IndicesWithinGrid ==
  ValidPointCall =>
    \A t \in DOMAIN ret.val :
      0 <= ret.val[t] /\ ret.val[t] < shape[1] * shape[2] * shape[3] * shape[4]

\* A flattening function was just applied.
FlattenCall == call.op \in {"Predecessor.__flat_indices", "utils._flat_indices"}

\* C22: the flatten operation maps (l, v, k, m) to m*V*K*L + k*V*L + v*L + l,
\* and on the in-range positions it is a bijection onto [0, L*V*K*M): applied
\* to the L*V*K*M positions of the field, each listed once, it yields every
\* index of the range, hence no index twice.
C22_FlattenIsBijection ==
  FlattenCall =>
    LET n == shape[1] * shape[2] * shape[3] * shape[4]
    IN /\ Len(ret.val) = Len(call.positions)
       /\ \A t \in DOMAIN ret.val :
            /\ ret.val[t] = CanonicalIndex(call.positions[t], shape)
            /\ 0 <= ret.val[t] /\ ret.val[t] < n
       /\ (Len(call.positions) = n /\ Range(call.positions) = InRange(shape)) =>
            Range(ret.val) = 0..(n - 1)

\* Every position of a field with more than one layer, variable, latitude
\* and longitude was flattened, onto the whole index range.
C22_Witness ==
  /\ call.op = "Predecessor.__flat_indices"
  /\ \A a \in 1..4 : shape[a] >= 2
  /\ Len(call.positions) = shape[1] * shape[2] * shape[3] * shape[4]
  /\ Range(call.positions) = InRange(shape)
  /\ Range(ret.val) = 0..(Len(call.positions) - 1)

\* A sequence of integers of 0..(size - 1) that is non-empty and strictly
\* increasing (sorted, no value twice) and holds the coordinate c.
IndexSetOf(ind, size, c) ==
  /\ Len(ind) >= 1
  /\ \A t \in 1..(Len(ind) - 1) : ind[t] < ind[t + 1]
  /\ \A t \in DOMAIN ind : 0 <= ind[t] /\ ind[t] < size
  /\ c \in Range(ind)

\* C23: in get_point_predecessors, for an in-range point (l, v, k, m), a
\* radius r >= 1 and any flags, the latitude and the longitude index sets of
\* __get_indices are non-empty, sorted, duplicate-free, within [0, K) and
\* [0, M), and hold k and m; the empty-latitude fallback is never taken.
C23_IndexSetsWellFormed ==
  call.op = "Predecessor.__get_indices" =>
    /\ IndexSetOf(ret.val.k_ind, shape[3], call.point.val[3])
    /\ IndexSetOf(ret.val.l_ind, shape[4], call.point.val[4])
    /\ ~ret.val.fallback

\* A periodic latitude window that wraps below 0, and a bounded longitude
\* window cut at the upper edge.
C23_Witness ==
  /\ call.op = "Predecessor.__get_indices"
  /\ shape[3] = 4 /\ shape[4] = 4
  /\ call.point.val[3] = 0 /\ call.point.val[4] = 3 /\ call.radius.val = 1
  /\ call.y_bound.val = 0 /\ call.x_bound.val = 1
  /\ ret.val.k_ind = <<0, 1, 3>> /\ ret.val.l_ind = <<2, 3>>
  /\ ~ret.val.fallback

====
